---- MODULE Spec2Model ----
(***************************************************************************)
(* Model of the Tech Price Comparator server (src/server.py).              *)
(*                                                                         *)
(* Strings that the code inspects character by character (price text,      *)
(* product names) are sequences of one-character strings.  CSS selector    *)
(* strings are sequences of tokens: "." and "#" are punctuation, every     *)
(* other token is an identifier.  A parsed HTML document is the sequence   *)
(* of its tags in document order.                                          *)
(***************************************************************************)
EXTENDS Integers, Sequences, FiniteSets, TLC

VARIABLES
    product,    \* product_name argument of the compare_prices call
    cpc,        \* position of the compare_prices coroutine
    session,    \* the aiohttp.ClientSession of the call: "none", "open", "closed"
    tpc,        \* tpc[w]: position of the fetch_price task of website w
    tres,       \* tres[w]: value the fetch_price task of w returned (or raised)
    tlog,       \* tlog[w]: the diagnostic line the task of w printed
    tnet,       \* tnet[w]: how the GET to website w ended
    gets,       \* gets[w]: number of HTTP GETs issued to website w
    result,     \* value returned by compare_prices
    soup,       \* find_element harness: the parsed document
    selector,   \* find_element harness: the rule
    found,      \* find_element harness: what find_element gave back
    arg,        \* text harness: a price text or a product name
    op,         \* text harness: the operation applied to text ("" before)
    out,        \* text harness: what the operation gave back
    mpc,        \* client: position of main()
    rounds,     \* client: menu rounds played
    last,       \* client: what happened in the last menu round
    shown       \* client: the last result or error main() printed

vars ==
    <<product, cpc, session, tpc, tres, tlog, tnet, gets, result, soup, selector, found,
      arg, op, out, mpc, rounds, last, shown>>

callVars == <<product, cpc, session, tpc, tres, tlog, tnet, gets, result>>

findVars == <<soup, selector, found>>

textVars == <<arg, op, out>>

clientVars == <<mpc, rounds, last, shown>>

(***************************************************************************)
(* Values                                                                  *)
(***************************************************************************)
\* Python's None
None == [type |-> "None"]

\* an exception propagating out of a call
Raise(exc) == [type |-> "raise", exc |-> exc]

\* a value not yet computed
Unset == [type |-> "unset"]

\* a bs4 Tag: name, class attribute (set of class tokens), id attribute
\* ("" when the tag has none) and text
Tag(name, classes, id, text) ==
    [type |-> "Tag", tag |-> name, class |-> classes, id |-> id, text |-> text]

(***************************************************************************)
(* Bounds of the find_element harness                                      *)
(***************************************************************************)
\* longest document, in tags
MaxDocLen == 2

\* longest CSS selector string, in tokens
MaxSelLen == 3

(***************************************************************************)
(* BeautifulSoup lookups used by find_element                              *)
(***************************************************************************)
\* the element of doc at the smallest position in hits, or None
FirstOf(doc, hits) ==
    IF hits = {} THEN None
    ELSE doc[CHOOSE i \in hits : \A j \in hits : i <= j]

\* does the tag satisfy every attribute constraint of attrs
\* (attrs is a record over a subset of the fields class, id)
AttrsMatch(e, attrs) ==
    /\ "class" \in DOMAIN attrs => attrs["class"] \in e.class
    /\ "id" \in DOMAIN attrs => attrs["id"] = e.id

\* soup.find(class_=c)
FindClass(doc, c) == FirstOf(doc, {i \in 1..Len(doc) : c \in doc[i].class})

\* soup.find(id=v)
FindId(doc, v) == FirstOf(doc, {i \in 1..Len(doc) : doc[i].id = v})

\* soup.find(name)
FindTag(doc, name) == FirstOf(doc, {i \in 1..Len(doc) : doc[i].tag = name})

\* soup.find(attrs=a)
FindAttrs(doc, a) == FirstOf(doc, {i \in 1..Len(doc) : AttrsMatch(doc[i], a)})

\* punctuation tokens of a CSS selector string
Punct == {".", "#"}

\* Parse a compound CSS selector  [tag] ( "." name | "#" name )*  starting
\* at token i.  acc collects the constraints; ok becomes FALSE on a syntax
\* error (punctuation not followed by an identifier, identifier in a
\* position where the lexer would have merged it).
RECURSIVE ParseSelector(_, _, _)
ParseSelector(s, i, acc) ==
    IF i > Len(s) THEN acc
    ELSE IF s[i] \notin Punct
         THEN IF i = 1
              THEN ParseSelector(s, i + 1, [acc EXCEPT !.tag = {s[i]}])
              ELSE [acc EXCEPT !.ok = FALSE]
    ELSE IF i + 1 > Len(s) \/ s[i + 1] \in Punct
         THEN [acc EXCEPT !.ok = FALSE]
    ELSE IF s[i] = "."
         THEN ParseSelector(s, i + 2, [acc EXCEPT !.class = @ \cup {s[i + 1]}])
         ELSE ParseSelector(s, i + 2, [acc EXCEPT !.id = @ \cup {s[i + 1]}])

\* the compiled form of a selector string; the empty string is a syntax error
Compile(s) ==
    IF Len(s) = 0 THEN [ok |-> FALSE, tag |-> {}, class |-> {}, id |-> {}]
    ELSE ParseSelector(s, 1, [ok |-> TRUE, tag |-> {}, class |-> {}, id |-> {}])

\* does the tag satisfy a compiled selector
SelectorMatch(e, c) ==
    /\ \A t \in c.tag : e.tag = t
    /\ c.class \subseteq e.class
    /\ \A v \in c.id : e.id = v

\* soup.select_one(s): soupsieve raises SelectorSyntaxError on a string it
\* cannot compile
SelectOne(doc, s) ==
    LET c == Compile(s)
    IN  IF ~c.ok THEN Raise("SelectorSyntaxError")
        ELSE FirstOf(doc, {i \in 1..Len(doc) : SelectorMatch(doc[i], c)})

(***************************************************************************)
(* find_element                                                            *)
(***************************************************************************)
\* A rule is [type |-> "str", s |-> tokens], [type |-> "dict", d |-> record]
\* or [type |-> "other"] (any value that is neither a str nor a dict).
StrRule(s) == [type |-> "str", s |-> s]

DictRule(d) == [type |-> "dict", d |-> d]

OtherRule == [type |-> "other"]

\* the dict branch with the tag and attrs constraints applied together
FindDictTagAndAttrs(doc, d) ==
    IF "class" \in DOMAIN d THEN FindClass(doc, d["class"])
    ELSE IF "id" \in DOMAIN d THEN FindId(doc, d["id"])
    ELSE IF "tag" \in DOMAIN d /\ "attrs" \in DOMAIN d
         THEN FirstOf(doc, {i \in 1..Len(doc) :
                                doc[i].tag = d["tag"] /\ AttrsMatch(doc[i], d["attrs"])})
    ELSE IF "tag" \in DOMAIN d THEN FindTag(doc, d["tag"])
    ELSE IF "attrs" \in DOMAIN d THEN FindAttrs(doc, d["attrs"])
    ELSE None

\* the dict branch of find_element: the first present key decides
FindDict(doc, d) ==
    IF "class" \in DOMAIN d THEN FindClass(doc, d["class"])
    ELSE IF "id" \in DOMAIN d THEN FindId(doc, d["id"])
    ELSE IF "tag" \in DOMAIN d THEN FindTag(doc, d["tag"])
    ELSE IF "attrs" \in DOMAIN d THEN FindAttrs(doc, d["attrs"])
    ELSE None

find_element(doc, rule) ==
    IF rule.type = "str" THEN SelectOne(doc, rule.s)
    ELSE IF rule.type = "dict" THEN FindDict(doc, rule.d)
    ELSE None

(***************************************************************************)
(* WEBSITES: the source registry                                           *)
(***************************************************************************)
\* iteration order of the WEBSITES dict
WEBSITE_KEYS == <<"amazon", "bestbuy", "newegg">>

Sites == {WEBSITE_KEYS[i] : i \in 1..Len(WEBSITE_KEYS)}

\* config["url"] up to its {} slot
UrlTemplate(w) ==
    CASE w = "amazon" -> "https://www.amazon.com/s?k="
      [] w = "bestbuy" -> "https://www.bestbuy.com/site/searchpage.jsp?st="
      [] w = "newegg" -> "https://www.newegg.com/p/pl?d="

\* config["price_selector"]
PriceSelector(w) ==
    CASE w = "amazon" -> DictRule([class |-> "a-price-whole"])
      [] w = "bestbuy" -> DictRule([class |-> "priceView-customer-price"])
      [] w = "newegg" -> DictRule([class |-> "price-current"])

\* config["name_selector"]
NameSelector(w) ==
    CASE w = "amazon" -> DictRule([class |-> "a-size-medium"])
      [] w = "bestbuy" -> DictRule([tag |-> "h4", attrs |-> [class |-> "sku-title"]])
      [] w = "newegg" -> DictRule([tag |-> "a", attrs |-> [class |-> "item-title"]])

(***************************************************************************)
(* String helpers of fetch_price and compare_prices                        *)
(***************************************************************************)
\* largest number of fractional digits of a price text; prices are held
\* in units of 10^-MaxFracDigits
MaxFracDigits == 3

RECURSIVE Pow10(_)
Pow10(n) == IF n = 0 THEN 1 ELSE 10 * Pow10(n - 1)

Digits == {"0", "1", "2", "3", "4", "5", "6", "7", "8", "9"}

DigitVal(c) ==
    CASE c = "0" -> 0 [] c = "1" -> 1 [] c = "2" -> 2 [] c = "3" -> 3 [] c = "4" -> 4
      [] c = "5" -> 5 [] c = "6" -> 6 [] c = "7" -> 7 [] c = "8" -> 8 [] c = "9" -> 9

\* product_name.replace(" ", "+")
ReplaceSpaces(p) == [i \in 1..Len(p) |-> IF p[i] = " " THEN "+" ELSE p[i]]

\* config["url"].format(...)
FormatUrl(w, p) == <<UrlTemplate(w)>> \o ReplaceSpaces(p)

\* str.strip()
Strip(t) ==
    LET keep == {i \in 1..Len(t) : t[i] # " "}
    IN  IF keep = {} THEN <<>>
        ELSE SubSeq(t, CHOOSE i \in keep : \A j \in keep : i <= j,
                       CHOOSE i \in keep : \A j \in keep : i >= j)

\* a filter that keeps the digits only
KeepDigitsOnly(t) == SelectSeq(t, LAMBDA x : x \in Digits)

\* ''.join(filter(lambda x: x.isdigit() or x == '.', price_text))
KeepDigitsAndDots(t) == SelectSeq(t, LAMBDA x : x \in Digits \/ x = ".")

\* value of a sequence of digits
RECURSIVE IntOf(_)
IntOf(ds) ==
    IF Len(ds) = 0 THEN 0
    ELSE 10 * IntOf(SubSeq(ds, 1, Len(ds) - 1)) + DigitVal(ds[Len(ds)])

\* does float() accept a string of digits and dots: at least one digit and
\* at most one dot
FloatOk(t) ==
    /\ \E i \in 1..Len(t) : t[i] \in Digits
    /\ Cardinality({i \in 1..Len(t) : t[i] = "."}) <= 1

\* float() of such a string, in units of 10^-MaxFracDigits
FloatOf(t) ==
    LET dots == {i \in 1..Len(t) : t[i] = "."}
        dot == IF dots = {} THEN Len(t) + 1 ELSE CHOOSE i \in dots : TRUE
        whole == SubSeq(t, 1, dot - 1)
        frac == SubSeq(t, dot + 1, Len(t))
    IN  IntOf(whole) * Pow10(MaxFracDigits)
            + IntOf(frac) * Pow10(MaxFracDigits - Len(frac))

\* f"${price:.2f}": the price rounded to cents, as <<"$", dollars, cents>>.
\* (Exact for prices whose digit after the cents is not 5.)
Fmt2(v) ==
    LET unit == Pow10(MaxFracDigits - 2)
        c == (v + unit \div 2) \div unit
    IN  <<"$", c \div 100, c % 100>>

\* str.title() of a registry key
Title(w) ==
    CASE w = "amazon" -> "Amazon"
      [] w = "bestbuy" -> "Bestbuy"
      [] w = "newegg" -> "Newegg"

(***************************************************************************)
(* fetch_price                                                             *)
(***************************************************************************)
\* What the network does with one GET:
\*   [kind |-> "timeout"]   the 10 s total timeout expires
\*   [kind |-> "error"]     connection failure or unreadable body
\*   [kind |-> "closed"]    the session was closed under the request
\*   [kind |-> "response", status |-> n, html |-> doc]
Timeout == [kind |-> "timeout"]

NetError == [kind |-> "error"]

SessionClosed == [kind |-> "closed"]

Response(status, html) == [kind |-> "response", status |-> status, html |-> html]

\* the record fetch_price returns on success
PriceRecord(w, name, price, url, now) ==
    [type |-> "record", website |-> w, name |-> name, price |-> price,
     url |-> url, timestamp |-> now]

\* the body of `if response.status == 200:` : a record, None when an element
\* is missing, or the exception that leaves the block
ExtractRecord(w, p, html, now) ==
    LET price_element == find_element(html, PriceSelector(w))
        name_element == find_element(html, NameSelector(w))
    IN  IF price_element.type = "raise" THEN price_element
        ELSE IF name_element.type = "raise" THEN name_element
        ELSE IF price_element.type = "Tag" /\ name_element.type = "Tag"
             THEN LET price_text == Strip(price_element.text)
                      kept == KeepDigitsAndDots(price_text)
                  IN  IF FloatOk(kept)
                      THEN PriceRecord(w, Strip(name_element.text), FloatOf(kept),
                                       FormatUrl(w, p), now)
                      ELSE Raise("ValueError")
        ELSE None

\* the try block without the test of response.status
FetchBodyAnyStatus(w, p, net, now) ==
    CASE net.kind = "timeout" -> Raise("TimeoutError")
      [] net.kind = "error" -> Raise("ClientError")
      [] net.kind = "closed" -> Raise("RuntimeError")
      [] net.kind = "response" -> ExtractRecord(w, p, net.html, now)

\* the try block of fetch_price once the GET is issued
FetchBody(w, p, net, now) ==
    CASE net.kind = "timeout" -> Raise("TimeoutError")
      [] net.kind = "error" -> Raise("ClientError")
      [] net.kind = "closed" -> Raise("RuntimeError")
      [] net.kind = "response" ->
            IF net.status = 200 THEN ExtractRecord(w, p, net.html, now) ELSE None

\* an except clause that catches asyncio.TimeoutError only
ExceptTimeoutOnly(body) ==
    IF body.type = "raise" /\ body.exc = "TimeoutError" THEN None ELSE body

\* except asyncio.TimeoutError / except Exception, then return None
ExceptReturnNone(body) ==
    IF body.type = "raise" THEN None ELSE body

\* the value fetch_price gives its caller
fetch_price(w, p, net, now) == ExceptReturnNone(FetchBody(w, p, net, now))

\* the line fetch_price prints ("" when it prints nothing)
FetchLog(w, net, body) ==
    IF body.type = "raise"
    THEN IF body.exc = "TimeoutError" THEN "Request timed out"
         ELSE "Error fetching"
    ELSE IF net.kind = "response" /\ net.status # 200 THEN "Failed to fetch page"
    ELSE ""

(***************************************************************************)
(* Pages the websites may serve                                            *)
(***************************************************************************)
\* the class the price rule of w looks for
PriceClass(w) == PriceSelector(w).d["class"]

PriceTag(w, text) == Tag("span", {PriceClass(w)}, "", text)

\* the tag the name rule of w is written for
NameTag(w, text) ==
    CASE w = "amazon" -> Tag("span", {"a-size-medium"}, "", text)
      [] w = "bestbuy" -> Tag("h4", {"sku-title"}, "", text)
      [] w = "newegg" -> Tag("a", {"item-title"}, "", text)

\* a tag with the name of the name rule's tag but another class
OtherTag(w, text) ==
    CASE w = "amazon" -> Tag("span", {"a-color-base"}, "", text)
      [] w = "bestbuy" -> Tag("h4", {"heading"}, "", text)
      [] w = "newegg" -> Tag("a", {"nav-link"}, "", text)

\* price texts: $2.99, 2.991, " $2.99 ", $1,200, N/A, 1.2.3
PriceTexts ==
    {<<"$", "2", ".", "9", "9">>,
     <<"2", ".", "9", "9", "1">>,
     <<" ", "$", "2", ".", "9", "9", " ">>,
     <<"$", "1", ",", "2", "0", "0">>,
     <<"N", "/", "A">>,
     <<"1", ".", "2", ".", "3">>}

ProductText == <<" ", "T", "V", " ">>

MenuText == <<"M", "e", "n", "u">>

Pages(w) ==
    {<<>>, <<PriceTag(w, <<"$", "2", ".", "9", "9">>)>>, <<NameTag(w, ProductText)>>}
        \cup {<<PriceTag(w, t), NameTag(w, ProductText)>> : t \in PriceTexts}
        \cup {<<PriceTag(w, <<"$", "2", ".", "9", "9">>), OtherTag(w, MenuText),
                NameTag(w, ProductText)>>}

\* HTTP statuses other than 200 that a website answers with
ErrorStatuses == {404, 500}

\* bodies sent along with an error status: nothing, or a full listing
ErrorPages(w) ==
    {<<>>, <<PriceTag(w, <<"$", "2", ".", "9", "9">>), NameTag(w, ProductText)>>}

NetOutcomes(w) ==
    {Timeout, NetError}
        \cup {Response(st, html) : st \in ErrorStatuses, html \in ErrorPages(w)}
        \cup {Response(200, html) : html \in Pages(w)}

\* product names a caller passes
Products == {<<"t", "v">>, <<"4", "k", " ", "t", "v">>}

(***************************************************************************)
(* compare_prices                                                          *)
(***************************************************************************)
\* asyncio.gather hands back as soon as one task has finished
GatherAnyDone(tp, tr) == \E w \in Sites : tp[w] = "done"

\* await asyncio.gather(*tasks) can resume: every task has finished, or one
\* of them has raised (gather then propagates that exception at once and
\* leaves the other tasks running)
GatherReady(tp, tr) ==
    \/ \A w \in Sites : tp[w] = "done"
    \/ \E w \in Sites : tp[w] = "done" /\ tr[w].type = "raise"

\* a list of the records in the order in which their tasks finished
GatherResultsByCompletion(tp, tr) ==
    LET recs == {w \in Sites : tp[w] = "done" /\ tr[w].type = "record"}
        rank(w) == 1 + Cardinality({v \in recs : tr[v].timestamp < tr[w].timestamp})
    IN  [i \in 1..Len(WEBSITE_KEYS) |->
            IF \E w \in recs : rank(w) = i
            THEN tr[CHOOSE w \in recs : rank(w) = i]
            ELSE None]

\* the list gather returns, in the order of the tasks (a task that has not
\* finished has contributed nothing)
GatherResults(tp, tr) ==
    [i \in 1..Len(WEBSITE_KEYS) |->
        IF tp[WEBSITE_KEYS[i]] = "done" THEN tr[WEBSITE_KEYS[i]] ELSE None]

\* the exception gather raises, if a task raised
GatherRaised(tp, tr) == {tr[w] : w \in {v \in Sites : tp[v] = "done" /\ tr[v].type = "raise"}}

\* a filter that stops at the first None
ValidResultsUntilNone(results) ==
    LET nones == {i \in 1..Len(results) : results[i] = None}
    IN  IF nones = {} THEN results
        ELSE SubSeq(results, 1, (CHOOSE i \in nones : \A j \in nones : i <= j) - 1)

\* [r for r in results if r is not None]
ValidResults(results) == SelectSeq(results, LAMBDA r : r # None)

\* "No prices found for {product_name}" without the f prefix
NoPricesLiteral(p) == [type |-> "none", text |-> <<"No prices found for ", <<"{product_name}">>>>]

\* f"No prices found for {product_name}"
NoPricesMessage(p) == [type |-> "none", text |-> <<"No prices found for ", p>>]

\* insert r before the first element whose price is not smaller
InsertBeforeEqual(sorted, r) ==
    LET before == SelectSeq(sorted, LAMBDA x : x.price < r.price)
        after == SelectSeq(sorted, LAMBDA x : x.price >= r.price)
    IN  before \o <<r>> \o after

\* insert r behind every element whose price is not larger
InsertByPrice(sorted, r) ==
    LET before == SelectSeq(sorted, LAMBDA x : x.price <= r.price)
        after == SelectSeq(sorted, LAMBDA x : x.price > r.price)
    IN  before \o <<r>> \o after

\* valid_results.sort(key=lambda x: x["price"]): list.sort is stable
RECURSIVE SortByPrice(_)
SortByPrice(rs) ==
    IF Len(rs) = 0 THEN <<>>
    ELSE InsertByPrice(SortByPrice(SubSeq(rs, 1, Len(rs) - 1)), rs[Len(rs)])

\* the numbered entry of one record
Entry(i, r) ==
    [rank |-> i, website |-> Title(r.website), name |-> r.name,
     price |-> Fmt2(r.price), url |-> r.url]

\* a summary that takes the best deal from the end of the list
SummaryBestLast(sorted) ==
    [best |-> <<Title(sorted[Len(sorted)].website), Fmt2(sorted[Len(sorted)].price)>>,
     range |-> <<Fmt2(sorted[1].price), Fmt2(sorted[Len(sorted)].price)>>,
     count |-> Len(sorted)]

\* the "Best Deal", "Price Range" and "Number of stores compared" lines
Summary(sorted) ==
    [best |-> <<Title(sorted[1].website), Fmt2(sorted[1].price)>>,
     range |-> <<Fmt2(sorted[1].price), Fmt2(sorted[Len(sorted)].price)>>,
     count |-> Len(sorted)]

\* the report string, by its parts
Report(p, sorted) ==
    [type |-> "report", product |-> p,
     entries |-> [i \in 1..Len(sorted) |-> Entry(i, sorted[i])],
     summary |-> Summary(sorted)]

\* an except clause that lets the exception through
ReRaise(exc) == Raise(exc)

\* except Exception as e: return f"Error comparing prices: {str(e)}"
ErrorString(exc) == [type |-> "error", text |-> <<"Error comparing prices: ", exc>>]

\* what compare_prices returns from the list gather gave it
Rendered(p, results) ==
    LET valid_results == ValidResults(results)
    IN  IF Len(valid_results) = 0 THEN NoPricesMessage(p)
        ELSE Report(p, SortByPrice(valid_results))

(***************************************************************************)
(* Actions of one compare_prices call                                      *)
(***************************************************************************)
\* no find_element call is under way
FindIdle ==
    /\ soup = <<>>
    /\ selector = OtherRule
    /\ found = Unset

\* no text operation is under way
TextIdle ==
    /\ arg = <<>>
    /\ op = ""
    /\ out = Unset

\* the client is not running
ClientIdle ==
    /\ mpc = "off"
    /\ rounds = 0
    /\ last = Unset
    /\ shown = Unset

\* logical clock read by datetime.now(): the number of tasks finished
Now == Cardinality({w \in Sites : tpc[w] = "done"})

InitCall ==
    /\ product \in Products
    /\ cpc = "start"
    /\ session = "none"
    /\ tpc = [w \in Sites |-> "none"]
    /\ tres = [w \in Sites |-> Unset]
    /\ tlog = [w \in Sites |-> ""]
    /\ tnet = [w \in Sites |-> Unset]
    /\ gets = [w \in Sites |-> 0]
    /\ result = Unset
    /\ FindIdle
    /\ TextIdle
    /\ ClientIdle

\* lines 162-165: the session is opened, one coroutine per website is
\* created and gather schedules them all
EnterAndGather ==
    /\ cpc = "start"
    /\ session' = "open"
    /\ tpc' = [w \in Sites |-> "ready"]
    /\ cpc' = "gather"
    /\ UNCHANGED <<product, tres, tlog, tnet, gets, result>>
    /\ UNCHANGED <<findVars, textVars, clientVars>>

\* line 162 raises: the except clause of compare_prices answers
SessionFails ==
    /\ cpc = "start"
    /\ result' = ErrorString("OSError")
    /\ cpc' = "done"
    /\ UNCHANGED <<product, session, tpc, tres, tlog, tnet, gets>>
    /\ UNCHANGED <<findVars, textVars, clientVars>>

\* tasks run one after the other: a task starts when those of the websites
\* before it have finished
TaskStartSequential(w) ==
    /\ tpc[w] = "ready"
    /\ \A i \in 1..Len(WEBSITE_KEYS) :
          (\E j \in (i + 1)..Len(WEBSITE_KEYS) : WEBSITE_KEYS[j] = w) =>
              tpc[WEBSITE_KEYS[i]] = "done"
    /\ tpc' = [tpc EXCEPT ![w] = "sleep"]
    /\ UNCHANGED <<product, cpc, session, tres, tlog, tnet, gets, result>>
    /\ UNCHANGED <<findVars, textVars, clientVars>>

\* lines 113-118: the task builds its URL and starts its delay
TaskStart(w) ==
    /\ tpc[w] = "ready"
    /\ tpc' = [tpc EXCEPT ![w] = "sleep"]
    /\ UNCHANGED <<product, cpc, session, tres, tlog, tnet, gets, result>>
    /\ UNCHANGED <<findVars, textVars, clientVars>>

\* a task ends with the value (or exception) of its fetch_price call
Finish(w, net) ==
    LET body == FetchBody(w, product, net, Now)
    IN  /\ tpc' = [tpc EXCEPT ![w] = "done"]
        /\ tres' = [tres EXCEPT ![w] = fetch_price(w, product, net, Now)]
        /\ tlog' = [tlog EXCEPT ![w] = FetchLog(w, net, body)]
        /\ tnet' = [tnet EXCEPT ![w] = net]

\* a task that issues its GET again after a fetch without a record
TaskGetRetry(w) ==
    /\ \/ tpc[w] = "sleep"
       \/ tpc[w] = "done" /\ tres[w] = None /\ gets[w] < 2
    /\ session = "open"
    /\ tpc' = [tpc EXCEPT ![w] = "get"]
    /\ gets' = [gets EXCEPT ![w] = @ + 1]
    /\ UNCHANGED <<tres, tlog, tnet>>
    /\ UNCHANGED <<product, cpc, session, result>>
    /\ UNCHANGED <<findVars, textVars, clientVars>>

\* lines 121-122: the delay is over and the GET is issued; on a closed
\* session the GET raises at once
TaskGet(w) ==
    /\ tpc[w] = "sleep"
    /\ IF session = "open"
       THEN /\ tpc' = [tpc EXCEPT ![w] = "get"]
            /\ gets' = [gets EXCEPT ![w] = @ + 1]
            /\ UNCHANGED <<tres, tlog, tnet>>
       ELSE /\ Finish(w, SessionClosed)
            /\ UNCHANGED gets
    /\ UNCHANGED <<product, cpc, session, result>>
    /\ UNCHANGED <<findVars, textVars, clientVars>>

\* a request without the 10 s timeout: where the timeout would have fired
\* the task waits for good
TaskRespondNoTimeout(w) ==
    /\ tpc[w] = "get"
    /\ \E net \in NetOutcomes(w) :
          IF net = Timeout
          THEN /\ tpc' = [tpc EXCEPT ![w] = "hung"]
               /\ UNCHANGED <<tres, tlog, tnet>>
          ELSE Finish(w, IF session = "open" THEN net ELSE SessionClosed)
    /\ UNCHANGED <<product, cpc, session, gets, result>>
    /\ UNCHANGED <<findVars, textVars, clientVars>>

\* lines 122-149: the request ends (response, failure or timeout) and the
\* task runs to its return
TaskRespond(w) ==
    /\ tpc[w] = "get"
    /\ \E net \in NetOutcomes(w) :
          Finish(w, IF session = "open" THEN net ELSE SessionClosed)
    /\ UNCHANGED <<product, cpc, session, gets, result>>
    /\ UNCHANGED <<findVars, textVars, clientVars>>

\* lines 165-195: gather resumes compare_prices, which returns its string;
\* leaving the async with block closes the session
GatherReturn ==
    /\ cpc = "gather"
    /\ GatherReady(tpc, tres)
    /\ LET raised == GatherRaised(tpc, tres)
       IN  result' = IF raised # {}
                     THEN ErrorString((CHOOSE r \in raised : TRUE).exc)
                     ELSE Rendered(product, GatherResults(tpc, tres))
    /\ session' = "closed"
    /\ cpc' = "done"
    /\ UNCHANGED <<product, tpc, tres, tlog, tnet, gets>>
    /\ UNCHANGED <<findVars, textVars, clientVars>>

Next ==
    \/ EnterAndGather
    \/ SessionFails
    \/ \E w \in Sites : TaskStart(w)
    \/ \E w \in Sites : TaskGet(w)
    \/ \E w \in Sites : TaskRespond(w)
    \/ GatherReturn

Spec == InitCall /\ [][Next]_vars

\* The call does not stop while something can still happen: the event loop
\* runs a coroutine that can run, a delay that is pending elapses, a request
\* that is pending ends (response, failure or the 10 s timeout).
Fairness == WF_vars(Next)

FairSpec == Spec /\ Fairness

(***************************************************************************)
(* Properties of fetch_price and compare_prices                            *)
(***************************************************************************)
Done(w) == tpc[w] = "done"

\* the tasks of the call were created, i.e. line 162 did not raise
Launched == session # "none"

\* position of a website in the registry
Index(w) == CHOOSE i \in 1..Len(WEBSITE_KEYS) : WEBSITE_KEYS[i] = w

\* the website an entry of the report is about
SiteOf(entry) == CHOOSE w \in Sites : Title(w) = entry.website

\* the GET ended without a 200 response
NoGoodResponse(net) ==
    \/ net.kind \in {"timeout", "error", "closed"}
    \/ net.kind = "response" /\ net.status # 200

\* a 200 response in which the price or the name element is not found
ElementMissing(w, net) ==
    /\ net.kind = "response" /\ net.status = 200
    /\ \/ find_element(net.html, PriceSelector(w)) = None
       \/ find_element(net.html, NameSelector(w)) = None

\* a 200 response with both elements whose price text has no digit or
\* more than one decimal point
PriceUnparsable(w, net) ==
    /\ net.kind = "response" /\ net.status = 200
    /\ ~ElementMissing(w, net)
    /\ LET t == find_element(net.html, PriceSelector(w)).text
       IN  \/ \A i \in 1..Len(t) : t[i] \notin Digits
           \/ \E i, j \in 1..Len(t) : i # j /\ t[i] = "." /\ t[j] = "."

FetchFailed(w) ==
    NoGoodResponse(tnet[w]) \/ ElementMissing(w, tnet[w]) \/ PriceUnparsable(w, tnet[w])

\* the websites whose fetch went through
Succeeded == {w \in Sites : Done(w) /\ ~FetchFailed(w)}

\* C1: fetch_price never raises to its caller: a finished task holds None
\* or a price record, and it holds None after a timeout, a network error,
\* a non-200 status, a missing price or name element, or unparsable price
\* text.
C1_FetchNeverRaises ==
    \A w \in Sites :
        Done(w) =>
            /\ tres[w].type \in {"None", "record"}
            /\ FetchFailed(w) => tres[w] = None

\* every kind of failure has happened to some finished task
C1_Witness ==
    /\ \A w \in Sites : Done(w) /\ tres[w] = None
    /\ tnet["amazon"].kind = "timeout"
    /\ PriceUnparsable("bestbuy", tnet["bestbuy"])
    /\ ElementMissing("newegg", tnet["newegg"])

\* C2: compare_prices starts a task for every website, and it returns only
\* when every one of them has finished after issuing its request: none is
\* skipped or cancelled, none is still in flight.
C2_AllTasksAwaited ==
    /\ Launched => \A w \in Sites : tpc[w] # "none"
    /\ cpc = "done" /\ Launched =>
          \A w \in Sites : Done(w) /\ gets[w] = 1 /\ tnet[w].kind # "closed"

\* the call has returned although one task failed before another succeeded
C2_Witness ==
    /\ cpc = "done"
    /\ \E v, w \in Sites :
          /\ tres[v] = None
          /\ tres[w].type = "record" /\ tres[w].timestamp > 0

\* C3: whatever happens to the single websites, when at least one fetch
\* succeeds the call returns a report that lists exactly the records of
\* the websites that succeeded, one entry each, and counts them.
C3_FaultsDoNotAbort ==
    cpc = "done" /\ Launched /\ Succeeded # {} =>
        /\ result.type = "report"
        /\ Len(result.entries) = Cardinality(Succeeded)
        /\ result.summary.count = Cardinality(Succeeded)
        /\ \A w \in Succeeded :
              \E i \in 1..Len(result.entries) :
                  /\ result.entries[i].website = Title(w)
                  /\ result.entries[i].name = tres[w].name
                  /\ result.entries[i].price = Fmt2(tres[w].price)
                  /\ result.entries[i].url = tres[w].url

\* one website answers 500, one serves an unparsable price, one succeeds,
\* and the report holds the one record
C3_Witness ==
    /\ cpc = "done"
    /\ \A w \in Sites : Done(w)
    /\ tnet["amazon"].kind = "response" /\ tnet["amazon"].status = 500
    /\ PriceUnparsable("bestbuy", tnet["bestbuy"])
    /\ Succeeded = {"newegg"}
    /\ result.type = "report" /\ Len(result.entries) = 1

\* C4: when every task ended without a record the call returns the message
\* "No prices found for " followed by the product name and nothing else (no
\* list, no summary, no error), and that message is returned in no other
\* case.
C4_NoPricesFound ==
    /\ cpc = "done" /\ Launched /\ (\A w \in Sites : tres[w] = None) =>
          result = [type |-> "none", text |-> <<"No prices found for ", product>>]
    /\ result.type = "none" => \A w \in Sites : Done(w) /\ tres[w] = None

\* the call returned after all three fetches failed
C4_Witness ==
    /\ cpc = "done"
    /\ \A w \in Sites : Done(w) /\ FetchFailed(w)
    /\ result.type = "none"

\* C5: the entries of a report are in ascending order of the prices of
\* their records, and entries of equal price are in registry order.
C5_SortedStable ==
    result.type = "report" =>
        \A i, j \in 1..Len(result.entries) :
            i < j =>
                LET wi == SiteOf(result.entries[i])
                    wj == SiteOf(result.entries[j])
                IN  /\ tres[wi].price <= tres[wj].price
                    /\ tres[wi].price = tres[wj].price => Index(wi) < Index(wj)

\* a report of three entries whose first two tie and whose last is the
\* first website of the registry
C5_Witness ==
    /\ result.type = "report"
    /\ Len(result.entries) = 3
    /\ tres[SiteOf(result.entries[1])].price = tres[SiteOf(result.entries[2])].price
    /\ Index(SiteOf(result.entries[3])) = 1

\* C6: in a report the best-deal line names a website whose record has the
\* lowest price, with that price; the range line gives the lowest and the
\* highest price in that order; the count is the number of records.
C6_SummaryLines ==
    result.type = "report" =>
        LET prices == {tres[w].price : w \in Succeeded}
            lo == CHOOSE x \in prices : \A y \in prices : x <= y
            hi == CHOOSE x \in prices : \A y \in prices : x >= y
        IN  /\ \E w \in Succeeded :
                  /\ tres[w].price = lo
                  /\ result.summary.best = <<Title(w), Fmt2(lo)>>
            /\ result.summary.range = <<Fmt2(lo), Fmt2(hi)>>
            /\ result.summary.count = Cardinality(Succeeded)

\* a report over three records where the cheapest is not the first website
\* and the range is not a single price
C6_Witness ==
    /\ result.type = "report"
    /\ Cardinality(Succeeded) = 3
    /\ result.summary.best[1] # Title(WEBSITE_KEYS[1])
    /\ result.summary.range[1] # result.summary.range[2]

\* C7: compare_prices never raises: when the call is over its result is a
\* report, the no-prices message or an error string, and there is no result
\* before that.
C7_AlwaysAString ==
    /\ cpc = "done" => result.type \in {"report", "none", "error"}
    /\ cpc # "done" => result = Unset

\* the call ended in its except clause
C7_Witness == cpc = "done" /\ result.type = "error"

\* C14: a task holds a record only after a 200 response in which both
\* elements were found and the price text parsed; the record names the
\* website of its task and its price is not negative; a report has at most
\* one entry per website.
C14_RecordOnlyOnSuccess ==
    /\ \A w \in Sites :
          tres[w].type = "record" =>
              /\ Done(w)
              /\ tnet[w].kind = "response" /\ tnet[w].status = 200
              /\ ~ElementMissing(w, tnet[w])
              /\ ~PriceUnparsable(w, tnet[w])
              /\ tres[w].website = w
              /\ tres[w].price >= 0
    /\ result.type = "report" =>
          \A i, j \in 1..Len(result.entries) :
              i # j => result.entries[i].website # result.entries[j].website

\* a record sits beside a task that got a full listing with status 500
C14_Witness ==
    \E v, w \in Sites :
        /\ tres[v].type = "record"
        /\ Done(w) /\ tnet[w].kind = "response"
        /\ tnet[w].status = 500 /\ Len(tnet[w].html) = 2
        /\ tres[w] = None

\* the report that the outcomes of the three GETs determine
ReportOfOutcomes ==
    Rendered(product,
             [i \in 1..Len(WEBSITE_KEYS) |->
                 fetch_price(WEBSITE_KEYS[i], product, tnet[WEBSITE_KEYS[i]], 0)])

\* C16: the string compare_prices returns depends on the product and on
\* how each GET ended only, not on the order in which the tasks ran or
\* finished.
C16_ReportDeterministic ==
    (cpc = "done" /\ Launched) => result = ReportOfOutcomes

\* two websites tie on the price and the later one in the registry
\* finished first
C16_Witness ==
    /\ cpc = "done"
    /\ \E v, w \in Sites :
          /\ tres[v].type = "record" /\ tres[w].type = "record"
          /\ tres[v].price = tres[w].price
          /\ Index(v) < Index(w)
          /\ tres[v].timestamp > tres[w].timestamp

\* C17: the session of a call is open while the call waits for its tasks,
\* it is closed when the call has returned, it is closed only when every
\* task has finished, and no task issues or awaits a request on a closed
\* session.
C17_SessionScope ==
    /\ cpc = "gather" => session = "open"
    /\ (cpc = "done" /\ Launched) => session = "closed"
    /\ session = "closed" => \A w \in Sites : Done(w)
    /\ \A w \in Sites : tpc[w] = "get" => session = "open"
    /\ \A w \in Sites : Done(w) => tnet[w].kind # "closed"

\* the session was released after a call in which a fetch failed
C17_Witness ==
    /\ session = "closed"
    /\ result.type = "report"
    /\ \E w \in Sites : Done(w) /\ FetchFailed(w)

\* C18: a GET goes to a website only from a task that was in its delay,
\* and only when no GET went to that website before: one GET per website,
\* no retry.
C18_OneGetAfterDelay ==
    [][\A w \in Sites :
          gets'[w] # gets[w] =>
              /\ gets[w] = 0 /\ gets'[w] = 1
              /\ tpc[w] = "sleep" /\ tpc'[w] = "get"]_vars

\* every website got its GET although every fetch failed
C18_Witness ==
    /\ cpc = "done"
    /\ \A w \in Sites : Done(w) /\ FetchFailed(w) /\ gets[w] = 1

\* C19: a task that has not finished can always take its next step (start,
\* end its delay and issue its GET, take the end of its request), whatever
\* the other tasks are doing.
C19_NoTaskWaitsForAnother ==
    \A w \in Sites :
        /\ tpc[w] = "ready" => ENABLED TaskStart(w)
        /\ tpc[w] = "sleep" => ENABLED TaskGet(w)
        /\ tpc[w] = "get" => ENABLED TaskRespond(w)

\* the last website of the registry has issued its GET while the first
\* has not started and the second is in its delay
C19_Witness ==
    /\ tpc[WEBSITE_KEYS[1]] = "ready"
    /\ tpc[WEBSITE_KEYS[2]] = "sleep"
    /\ tpc[WEBSITE_KEYS[3]] = "get"

\* C20: every call returns a result in the end, and when its tasks were
\* started they have all finished by then.
C20_CallTerminates ==
    <>(cpc = "done" /\ result # Unset /\ (Launched => \A w \in Sites : Done(w)))

\* the call returned after a request ran into its timeout
C20_Witness ==
    /\ cpc = "done"
    /\ \E w \in Sites : Done(w) /\ tnet[w].kind = "timeout"

(***************************************************************************)
(* find_element harness: every document and rule within the bounds         *)
(***************************************************************************)
\* all sequences over S of length at most n
SeqsUpTo(S, n) == UNION {[1..k -> S] : k \in 0..n}

HarnessTags == {"h4", "a"}

HarnessClasses == {{}, {"sku-title"}, {"x"}}

HarnessIds == {"", "main"}

HarnessElements ==
    {Tag(t, c, i, <<>>) : t \in HarnessTags, c \in HarnessClasses, i \in HarnessIds}

Docs == SeqsUpTo(HarnessElements, MaxDocLen)

\* selector strings: no two adjacent identifier tokens (the lexer reads
\* adjacent identifier characters as one identifier)
SelectorTokens == Punct \cup {"h4", "sku-title", "main"}

SelectorStrings ==
    {s \in SeqsUpTo(SelectorTokens, MaxSelLen) :
        \A i \in 1..(Len(s) - 1) : s[i] \in Punct \/ s[i + 1] \in Punct}

\* the empty dict {}
EmptyDict == [k \in {} |-> ""]

\* values tried for the 'attrs' key
AttrsValues ==
    {EmptyDict, [class |-> "sku-title"], [id |-> "main"],
     [class |-> "sku-title", id |-> "main"]}

\* dicts over every subset of the keys class, id, tag, attrs
SelectorDicts ==
    {c @@ i @@ t @@ a :
        c \in {EmptyDict, [class |-> "sku-title"]},
        i \in {EmptyDict, [id |-> "main"]},
        t \in {EmptyDict, [tag |-> "h4"]},
        a \in {EmptyDict} \cup {[attrs |-> v] : v \in AttrsValues}}

Rules ==
    {StrRule(s) : s \in SelectorStrings} \cup {DictRule(d) : d \in SelectorDicts}
        \cup {OtherRule}

(***************************************************************************)
(* Specification of the find_element harness                               *)
(***************************************************************************)
CallIdle ==
    /\ product = <<>>
    /\ cpc = "start"
    /\ session = "none"
    /\ tpc = [w \in Sites |-> "none"]
    /\ tres = [w \in Sites |-> Unset]
    /\ tlog = [w \in Sites |-> ""]
    /\ tnet = [w \in Sites |-> Unset]
    /\ gets = [w \in Sites |-> 0]
    /\ result = Unset

InitFind ==
    /\ CallIdle
    /\ TextIdle
    /\ ClientIdle
    /\ soup \in Docs
    /\ selector \in Rules
    /\ found = Unset

\* one call find_element(soup, selector)
CallFindElement ==
    /\ found = Unset
    /\ found' = find_element(soup, selector)
    /\ UNCHANGED <<soup, selector>>
    /\ UNCHANGED <<callVars, textVars, clientVars>>

NextFind == CallFindElement

SpecFind == InitFind /\ [][NextFind]_vars

(***************************************************************************)
(* Properties of find_element                                              *)
(***************************************************************************)
\* the keys of a dict rule in the order find_element asks for them
KeyOrder == <<"class", "id", "tag", "attrs">>

\* the first key of KeyOrder present in d
FirstKey(d) ==
    KeyOrder[CHOOSE i \in 1..4 :
                /\ KeyOrder[i] \in DOMAIN d
                /\ \A j \in 1..(i - 1) : KeyOrder[j] \notin DOMAIN d]

\* C8: with a rule that has a tag and an attrs constraint (and no class or
\* id key), find_element returns only a tag that has the given name and
\* the given attributes.
C8_TagAndAttrsTogether ==
    (found.type = "Tag" /\ selector.type = "dict"
        /\ DOMAIN selector.d = {"tag", "attrs"}) =>
            /\ found.tag = selector.d["tag"]
            /\ AttrsMatch(found, selector.d["attrs"])

\* C9: for a dict rule find_element runs the lookup of the first present
\* key among class, id, tag, attrs, and gives the same element for every
\* other dict that has this key first with the same value.
C9_FirstKeyWins ==
    (found # Unset /\ selector.type = "dict" /\ DOMAIN selector.d # {}) =>
        LET d == selector.d
            k == FirstKey(d)
        IN  /\ k = "class" => found = FindClass(soup, d[k])
            /\ k = "id" => found = FindId(soup, d[k])
            /\ k = "tag" => found = FindTag(soup, d[k])
            /\ k = "attrs" => found = FindAttrs(soup, d[k])
            /\ \A d2 \in SelectorDicts :
                  (DOMAIN d2 # {} /\ FirstKey(d2) = k /\ d2[k] = d[k]) =>
                      find_element(soup, DictRule(d2)) = found

\* a rule with all four keys returned a tag that the id, tag and attrs
\* constraints of the rule all reject
C9_Witness ==
    /\ found.type = "Tag"
    /\ selector.type = "dict"
    /\ DOMAIN selector.d = {"class", "id", "tag", "attrs"}
    /\ found.id # selector.d["id"]
    /\ found.tag # selector.d["tag"]
    /\ DOMAIN selector.d["attrs"] = {"class", "id"}

\* no tag of the document is what find_element gives for the rule on the
\* document made of that tag alone
NoMatchingNode ==
    \A i \in 1..Len(soup) : find_element(<<soup[i]>>, selector).type # "Tag"

\* C10: find_element never faults, and on a document without a matching
\* node it returns None, whatever the rule.
C10_NeverFaults ==
    found # Unset =>
        /\ found.type \in {"None", "Tag"}
        /\ NoMatchingNode => found = None

(***************************************************************************)
(* Text harness: price normalization and URL building on every text        *)
(* within the bounds                                                       *)
(***************************************************************************)
\* longest enumerated text, in characters
MaxTextLen == 4

TextChars == {" ", ".", ",", "1", "2", "&", "a"}

\* "$1,234.56 each"
LongPriceText ==
    <<"$", "1", ",", "2", "3", "4", ".", "5", "6", " ", "e", "a", "c", "h">>

\* "1234.56"
PlainPriceText == <<"1", "2", "3", "4", ".", "5", "6">>

\* number of digits behind the last dot of t
FracDigits(t) ==
    LET kept == KeepDigitsAndDots(t)
        dots == {i \in 1..Len(kept) : kept[i] = "."}
    IN  IF dots = {} THEN 0
        ELSE Len(kept) - (CHOOSE i \in dots : \A j \in dots : i >= j)

\* the texts tried: every short text, and the two long price texts
Texts ==
    {t \in SeqsUpTo(TextChars, MaxTextLen) : FracDigits(t) <= MaxFracDigits}
        \cup {LongPriceText, PlainPriceText}

InitText ==
    /\ CallIdle
    /\ FindIdle
    /\ ClientIdle
    /\ arg \in Texts
    /\ op = ""
    /\ out = Unset

\* fetch_price of website w on a 200 page whose price element holds arg
CallFetchOnPrice(w) ==
    /\ op = ""
    /\ op' = "price"
    /\ out' = fetch_price(w, <<>>, Response(200, <<PriceTag(w, arg), NameTag(w, ProductText)>>), 0)
    /\ UNCHANGED arg
    /\ UNCHANGED <<callVars, findVars, clientVars>>

\* line 115 of fetch_price for website w and product name arg
CallFormatUrl(w) ==
    /\ op = ""
    /\ op' = "url"
    /\ out' = [type |-> "url", website |-> w, url |-> FormatUrl(w, arg)]
    /\ UNCHANGED arg
    /\ UNCHANGED <<callVars, findVars, clientVars>>

NextText ==
    \/ \E w \in Sites : CallFetchOnPrice(w)
    \/ \E w \in Sites : CallFormatUrl(w)

SpecText == InitText /\ [][NextText]_vars

(***************************************************************************)
(* Properties of price normalization and URL building                      *)
(***************************************************************************)
\* the digits and decimal points of t, in order
DigitsAndDotsOf(t) == SelectSeq(t, LAMBDA c : c \in Digits \/ c = ".")

\* 1234.56 in the units prices are held in
Price123456 == 123456 * Pow10(MaxFracDigits - 2)

\* C11: fetch_price keeps the digits and decimal points of the price text,
\* in order, and parses them: "$1,234.56 each" and "1234.56" both give
\* 1234.56; when the kept characters hold no digit or more than one decimal
\* point it returns None and does not raise.
C11_PriceNormalization ==
    op = "price" =>
        LET kept == DigitsAndDotsOf(arg)
            digits == {i \in 1..Len(kept) : kept[i] \in Digits}
            dots == {i \in 1..Len(kept) : kept[i] = "."}
        IN  /\ (digits # {} /\ Cardinality(dots) <= 1) =>
                  out.type = "record" /\ out.price = FloatOf(kept)
            /\ (digits = {} \/ Cardinality(dots) > 1) => out = None
            /\ arg \in {LongPriceText, PlainPriceText} =>
                  out.type = "record" /\ out.price = Price123456

\* "$1,234.56 each" was normalized
C11_Witness == op = "price" /\ arg = LongPriceText /\ out.type = "record"

\* the characters quote_plus leaves as they are
Unreserved ==
    Digits \cup {"a", "b", "e", "c", "h", "k", "t", "v", "_", ".", "-", "~"}

\* quote_plus of one character
QuoteChar(c) ==
    IF c \in Unreserved THEN <<c>>
    ELSE CASE c = " " -> <<"+">>
           [] c = "&" -> <<"%", "2", "6">>
           [] c = "," -> <<"%", "2", "C">>
           [] c = "$" -> <<"%", "2", "4">>

\* urllib.parse.quote_plus
RECURSIVE QuotePlus(_)
QuotePlus(t) ==
    IF Len(t) = 0 THEN <<>> ELSE QuoteChar(t[1]) \o QuotePlus(SubSeq(t, 2, Len(t)))

\* C12: the text fetch_price puts into the URL template is the URL-encoded
\* (percent-/plus-encoded) product name, also for names with reserved
\* characters such as '&'.
C12_UrlEncoded ==
    op = "url" => out.url = <<UrlTemplate(out.website)>> \o QuotePlus(arg)

(***************************************************************************)
(* The client (src/client.py).  A string is the sequence of its pieces.    *)
(***************************************************************************)
\* most menu rounds of one run of main()
MaxRounds == 2

Str(pieces) == [type |-> "str", s |-> pieces]

\* what session.call_tool("compare_prices", ...) gives: the text of the
\* server's answer, or the exception of the transport
CompareReplies ==
    {Str(<<"Price Comparison for: tv">>), Str(<<"No prices found for tv">>),
     Str(<<"Error comparing prices: OSError">>), Raise("Connection closed")}

\* what session.call_tool("get_available_websites") gives
WebsitesReplies ==
    {Str(<<"Available websites for price comparison:">>), Raise("Connection closed")}

\* what tokenizer and model.generate do with the prompt
Generations == {Str(<<"Buy at the first store">>), Raise("CUDA out of memory")}

\* compare_prices / get_available_websites of the client: the text of the
\* reply; an exception of the transport passes through
RemoteText(reply) == reply

\* get_ai_analysis without its except clause
GetAiAnalysisUncaught(price_data, gen) == gen

\* get_ai_analysis
get_ai_analysis(price_data, gen) ==
    IF gen.type = "raise" THEN Str(<<"Error getting AI analysis: ", gen.exc>>)
    ELSE gen

\* get_shopping_recommendation
get_shopping_recommendation(reply, gen) ==
    LET price_data == RemoteText(reply)
    IN  IF price_data.type = "raise"
        THEN Str(<<"Error getting recommendation: ", price_data.exc>>)
        ELSE LET analysis == get_ai_analysis(price_data.s, gen)
             IN  IF analysis.type = "raise"
                 THEN Str(<<"Error getting recommendation: ", analysis.exc>>)
                 ELSE Str(<<"Price Comparison:">> \o price_data.s
                            \o <<"AI Analysis:">> \o analysis.s)

\* what happened in a menu round
Round(choice, reply, gen) == [choice |-> choice, reply |-> reply, gen |-> gen]

InitClient ==
    /\ CallIdle
    /\ FindIdle
    /\ TextIdle
    /\ mpc = "connect"
    /\ rounds = 0
    /\ last = Unset
    /\ shown = <<>>

\* lines 128-131 and 167-170: connect_to_server; if it raises, main prints
\* the error, cleans up and ends
Connect ==
    /\ mpc = "connect"
    /\ \/ /\ mpc' = "menu"
          /\ UNCHANGED shown
       \/ /\ mpc' = "exited"
          /\ shown' = Append(shown, <<"Error: ", "Connection refused">>)
    /\ UNCHANGED <<rounds, last>>
    /\ UNCHANGED <<callVars, findVars, textVars>>

\* a result is printed and the loop goes on, or the exception of the round
\* reaches the except clause of main (lines 167-170)
PrintOrDie(value) ==
    IF value.type = "raise"
    THEN /\ shown' = Append(shown, <<"Error: ", value.exc>>)
         /\ mpc' = "exited"
    ELSE /\ shown' = Append(shown, value.s)
         /\ mpc' = "menu"

\* lines 142-147: choice 1
MenuCompare ==
    /\ mpc = "menu" /\ rounds < MaxRounds
    /\ \E reply \in CompareReplies :
          /\ PrintOrDie(RemoteText(reply))
          /\ last' = Round("1", reply, Unset)
    /\ rounds' = rounds + 1
    /\ UNCHANGED <<callVars, findVars, textVars>>

\* lines 149-154: choice 2
MenuRecommend ==
    /\ mpc = "menu" /\ rounds < MaxRounds
    /\ \E reply \in CompareReplies, gen \in Generations :
          /\ PrintOrDie(get_shopping_recommendation(reply, gen))
          /\ last' = Round("2", reply, gen)
    /\ rounds' = rounds + 1
    /\ UNCHANGED <<callVars, findVars, textVars>>

\* lines 156-159: choice 3
MenuWebsites ==
    /\ mpc = "menu" /\ rounds < MaxRounds
    /\ \E reply \in WebsitesReplies :
          /\ PrintOrDie(RemoteText(reply))
          /\ last' = Round("3", reply, Unset)
    /\ rounds' = rounds + 1
    /\ UNCHANGED <<callVars, findVars, textVars>>

\* lines 161-162 and 169-170: choice 4
MenuExit ==
    /\ mpc = "menu"
    /\ mpc' = "exited"
    /\ last' = Round("4", Unset, Unset)
    /\ UNCHANGED <<rounds, shown>>
    /\ UNCHANGED <<callVars, findVars, textVars>>

\* lines 164-165: any other choice
MenuInvalid ==
    /\ mpc = "menu" /\ rounds < MaxRounds
    /\ shown' = Append(shown, <<"Invalid choice. Please try again.">>)
    /\ last' = Round("other", Unset, Unset)
    /\ rounds' = rounds + 1
    /\ UNCHANGED mpc
    /\ UNCHANGED <<callVars, findVars, textVars>>

NextClient ==
    \/ Connect
    \/ MenuCompare
    \/ MenuRecommend
    \/ MenuWebsites
    \/ MenuExit
    \/ MenuInvalid

SpecClient == InitClient /\ [][NextClient]_vars

(***************************************************************************)
(* Properties of the client                                                *)
(***************************************************************************)
\* the last thing main() printed
LastShown == shown[Len(shown)]

\* the last menu round made a remote call and the transport failed
TransportFault ==
    /\ last # Unset
    /\ last.choice \in {"1", "2", "3"}
    /\ last.reply.type = "raise"

\* C13: when the summarizer fails in a recommendation whose remote call
\* went through, what is printed is the comparison text followed by the
\* analysis section holding the error string, and the loop goes on.
C13_ComparisonSurvivesSummarizer ==
    (last # Unset /\ last.choice = "2" /\ last.reply.type = "str"
        /\ last.gen.type = "raise") =>
            /\ mpc = "menu"
            /\ LastShown = <<"Price Comparison:">> \o last.reply.s \o <<"AI Analysis:">>
                              \o <<"Error getting AI analysis: ", last.gen.exc>>

\* the summarizer failed on a report
C13_Witness ==
    /\ last # Unset /\ last.choice = "2"
    /\ last.reply = Str(<<"Price Comparison for: tv">>)
    /\ last.gen.type = "raise"

\* C15: a transport fault in a menu round that makes a remote call (compare
\* prices, AI recommendation, view websites) ends the loop and is printed
\* as it is; nothing else ends the loop but choice 4.
C15_TransportFaultFatal ==
    /\ TransportFault =>
          /\ mpc = "exited"
          /\ LastShown = <<"Error: ", last.reply.exc>>
    /\ (mpc = "exited" /\ last # Unset /\ last.choice # "4") => TransportFault

====
